---- MODULE Spec2Model ----
(***************************************************************************)
(* A model of the directed-graph container Graph<V, E> of src/src/lib.rs:   *)
(* the two stores (adj_list, vertices), the four mutation operations, the   *)
(* two queries, traverse_bfs, and the text (de)serialization.               *)
(***************************************************************************)
EXTENDS Integers, Sequences, FiniteSets, TLC

VARIABLES
    adj_list,   \* Graph.adj_list : VertexId -> (VertexId -> E)
    vertices,   \* Graph.vertices : VertexId -> V
    call,       \* the last public call: [op, vertex_id, edge, value]
    ret,        \* what that call returned
    pre,        \* the graph as it was when that call started
    nops,       \* number of mutation calls made so far
    pc,         \* position of the caller: "idle", "bfs", "done", "panic"
    traverse,   \* traverse_bfs: the output vector
    queue,      \* traverse_bfs: the VecDeque
    used,       \* traverse_bfs: the HashSet of visited ids
    todo,       \* traverse_bfs: keys of `vertices` the outer loop has not yielded yet
    starts,     \* traverse_bfs: the start vertices the outer loop pushed, in order
    hist,       \* log of the calls made (used by the history specifications)
    file        \* content of the file serialize_to writes and deserialize_from reads

vars == <<adj_list, vertices, call, ret, pre, nops, pc, traverse, queue, used,
          todo, starts, hist, file>>

bfsVars == <<traverse, queue, used, todo, starts>>

-----------------------------------------------------------------------------
(* Bounds of the model *)

\* vertex ids are drawn from 0 .. MaxId
MaxId == 1
\* number of mutation calls in one run
MaxOps == 5
\* number of mutation calls in one run of the specification with files
MaxIOOps == 3
\* number of characters of a file given to deserialize_from
MaxLen == 6

\* number of lines, of the two sections together, of a file built from whole lines
MaxLines == 4

Ids == 0 .. MaxId
\* The payloads of Graph<u32, u32>.  The container never inspects a payload, so
\* two distinct ones are what it takes to tell an overwrite from a keep.
Vals == {1, 2}
\* The payloads of Graph<String, String>: the empty string, a plain one, one with
\* a leading and a trailing space, one with a '#', one with a line break.
StrVals == {<<>>, <<"a">>, <<" ", "a", " ">>, <<"a", "#">>, <<"a", "\n", "b">>}
\* The characters of the files given to deserialize_from
Alphabet == {"0", "1", "x", " ", "\n", "#"}
Texts == UNION {[1 .. n -> Alphabet] : n \in 0 .. MaxLen}
\* The lines of the files built from whole lines: vertex lines that declare an id
\* once or again, edge lines between declared and undeclared ids, the empty line
VertexLineChoices == {<<"0", " ", "a">>, <<"0", " ", "b">>, <<"1", " ", "a">>, <<>>}
EdgeLineChoices == {<<"0", " ", "1", " ", "a">>, <<"0", " ", "1", " ", "b">>,
                    <<"1", " ", "0", " ", "a">>, <<>>}

-----------------------------------------------------------------------------
(* Option<T>: None is the empty tuple, Some(x) the one-element tuple *)

None == <<>>
Some(x) == <<x>>

(* HashMap<K, T> is a function on its key set *)
EmptyMap == <<>>
Keys(m) == DOMAIN m
MapInsert(m, k, v) == [x \in (DOMAIN m) \cup {k} |-> IF x = k THEN v ELSE m[x]]
MapRemove(m, k) == [x \in (DOMAIN m) \ {k} |-> m[x]]
MapGet(m, k) == IF k \in DOMAIN m THEN Some(m[k]) ELSE None

\* every order in which an unordered container may yield the elements of S
Orders(S) == {s \in [1 .. Cardinality(S) -> S] : \A i, j \in 1 .. Cardinality(S) : s[i] = s[j] => i = j}

\* Graph::new
new == [adj_list |-> EmptyMap, vertices |-> EmptyMap]

\* the value of `self`
self == [adj_list |-> adj_list, vertices |-> vertices]

-----------------------------------------------------------------------------
(* The mutation operations, each as the pair (graph afterwards, value returned) *)

\* insert_node with `vertices.entry(vertex_id).or_insert(value)`: a known id keeps its value
insert_node_keep_old(g, vertex_id, value) ==
    [g   |-> [adj_list |-> IF vertex_id \in Keys(g.adj_list)
                             THEN g.adj_list
                             ELSE MapInsert(g.adj_list, vertex_id, EmptyMap),
              vertices |-> IF vertex_id \in Keys(g.vertices)
                             THEN g.vertices
                             ELSE MapInsert(g.vertices, vertex_id, value)],
     ret |-> MapGet(g.vertices, vertex_id)]

\* insert_node with `adj_list.insert(vertex_id, HashMap::new())`: a known id loses its row
insert_node_resets_row(g, vertex_id, value) ==
    [g   |-> [adj_list |-> MapInsert(g.adj_list, vertex_id, EmptyMap),
              vertices |-> MapInsert(g.vertices, vertex_id, value)],
     ret |-> MapGet(g.vertices, vertex_id)]

\* adj_list.entry(vertex_id).or_insert(HashMap::new()); vertices.insert(vertex_id, value)
insert_node(g, vertex_id, value) ==
    [g   |-> [adj_list |-> IF vertex_id \in Keys(g.adj_list)
                             THEN g.adj_list
                             ELSE MapInsert(g.adj_list, vertex_id, EmptyMap),
              vertices |-> MapInsert(g.vertices, vertex_id, value)],
     ret |-> MapGet(g.vertices, vertex_id)]

\* remove_node without `self.adj_list.remove(&vertex_id)`
remove_node_keeps_row(g, vertex_id) ==
    [g   |-> [adj_list |-> [k \in Keys(g.adj_list) |-> MapRemove(g.adj_list[k], vertex_id)],
              vertices |-> MapRemove(g.vertices, vertex_id)],
     ret |-> MapGet(g.vertices, vertex_id)]

\* remove_node without the loop that removes the edges pointing to the vertex
remove_node_no_prune(g, vertex_id) ==
    [g   |-> [adj_list |-> MapRemove(g.adj_list, vertex_id),
              vertices |-> MapRemove(g.vertices, vertex_id)],
     ret |-> MapGet(g.vertices, vertex_id)]

\* remove_node that returns at once when the vertex is unknown
remove_node_only_known(g, vertex_id) ==
    IF vertex_id \notin Keys(g.vertices)
    THEN [g |-> g, ret |-> None]
    ELSE [g   |-> [adj_list |-> MapRemove([k \in Keys(g.adj_list) |->
                                              MapRemove(g.adj_list[k], vertex_id)], vertex_id),
                   vertices |-> MapRemove(g.vertices, vertex_id)],
          ret |-> MapGet(g.vertices, vertex_id)]

\* for map in adj_list.values_mut() { map.remove(&vertex_id) }; adj_list.remove; vertices.remove
remove_node(g, vertex_id) ==
    LET pruned == [k \in Keys(g.adj_list) |-> MapRemove(g.adj_list[k], vertex_id)]
    IN [g   |-> [adj_list |-> MapRemove(pruned, vertex_id),
                 vertices |-> MapRemove(g.vertices, vertex_id)],
        ret |-> MapGet(g.vertices, vertex_id)]

\* insert_edge with `entry(edge.1).or_insert(value)`: an existing edge keeps its value
insert_edge_keep_old(g, edge, value) ==
    IF edge[1] \notin Keys(g.adj_list)
    THEN [g |-> g, ret |-> None]
    ELSE [g   |-> [adj_list |-> [g.adj_list EXCEPT ![edge[1]] =
                                    IF edge[2] \in Keys(@) THEN @ ELSE MapInsert(@, edge[2], value)],
                   vertices |-> g.vertices],
          ret |-> MapGet(g.adj_list[edge[1]], edge[2])]

\* insert_edge with `entry(edge.0).or_default()`: a missing row is created
insert_edge_creates_row(g, edge, value) ==
    LET row == IF edge[1] \in Keys(g.adj_list) THEN g.adj_list[edge[1]] ELSE EmptyMap
    IN [g   |-> [adj_list |-> MapInsert(g.adj_list, edge[1], MapInsert(row, edge[2], value)),
                 vertices |-> g.vertices],
        ret |-> MapGet(row, edge[2])]

\* adj_list.get_mut(&edge.0)?.insert(edge.1, value)
insert_edge(g, edge, value) ==
    IF edge[1] \notin Keys(g.adj_list)
    THEN [g |-> g, ret |-> None]
    ELSE [g   |-> [adj_list |-> [g.adj_list EXCEPT ![edge[1]] = MapInsert(@, edge[2], value)],
                   vertices |-> g.vertices],
          ret |-> MapGet(g.adj_list[edge[1]], edge[2])]

\* remove_edge with `adj_list.remove(&edge.0)?.remove(&edge.1)`: the row is taken out
remove_edge_drops_row(g, edge) ==
    IF edge[1] \notin Keys(g.adj_list)
    THEN [g |-> g, ret |-> None]
    ELSE [g   |-> [adj_list |-> MapRemove(g.adj_list, edge[1]),
                   vertices |-> g.vertices],
          ret |-> MapGet(g.adj_list[edge[1]], edge[2])]

\* remove_edge that removes the reverse edge too, as for an undirected graph
remove_edge_both_directions(g, edge) ==
    IF edge[1] \notin Keys(g.adj_list)
    THEN [g |-> g, ret |-> None]
    ELSE [g   |-> [adj_list |-> [from \in Keys(g.adj_list) |->
                                    IF from = edge[1] THEN MapRemove(g.adj_list[from], edge[2])
                                    ELSE IF from = edge[2] THEN MapRemove(g.adj_list[from], edge[1])
                                    ELSE g.adj_list[from]],
                   vertices |-> g.vertices],
          ret |-> MapGet(g.adj_list[edge[1]], edge[2])]

\* adj_list.get_mut(&edge.0)?.remove(&edge.1)
remove_edge(g, edge) ==
    IF edge[1] \notin Keys(g.adj_list)
    THEN [g |-> g, ret |-> None]
    ELSE [g   |-> [adj_list |-> [g.adj_list EXCEPT ![edge[1]] = MapRemove(@, edge[2])],
                   vertices |-> g.vertices],
          ret |-> MapGet(g.adj_list[edge[1]], edge[2])]

(* The queries.  get_adjacents collects the keys of an unordered map into a *)
(* vector, so it is the set of the vectors it may return.                   *)
get_adjacents(g, vertex) ==
    IF vertex \notin Keys(g.adj_list)
    THEN {None}
    ELSE {Some(s) : s \in Orders(Keys(g.adj_list[vertex]))}

get_vertex_value(g, vertex) == MapGet(g.vertices, vertex)

-----------------------------------------------------------------------------
(* Text.  A string is the sequence of its characters; Graph<String, String> *)
(* is the instance src/src/bin/main.rs uses.                                *)

Digits == <<"0", "1", "2", "3", "4", "5", "6", "7", "8", "9">>
DigitValue(c) == (CHOOSE i \in DOMAIN Digits : Digits[i] = c) - 1
IsDigit(c) == \E i \in DOMAIN Digits : Digits[i] = c

\* char::is_whitespace, on the characters the model writes
IsWhitespace(c) == c \in {" ", "\n", "\t", "\r"}

\* u32::to_string
RECURSIVE U32ToString(_)
U32ToString(n) ==
    IF n < 10 THEN <<Digits[n + 1]>>
    ELSE U32ToString(n \div 10) \o <<Digits[(n % 10) + 1]>>

\* String::to_string and str::parse::<String>: the text itself, never an error
StringToString(v) == v
ParseString(t) == Some(t)

\* u32::MAX, 4294967295, digit by digit
U32MaxDigits == <<"4", "2", "9", "4", "9", "6", "7", "2", "9", "5">>

RECURSIVE StripZeros(_)
StripZeros(t) == IF t # <<>> /\ Head(t) = "0" THEN StripZeros(Tail(t)) ELSE t

\* a <= b, for digit strings of one length
RECURSIVE DigitsLeq(_, _)
DigitsLeq(a, b) ==
    IF a = <<>> THEN TRUE
    ELSE IF Head(a) # Head(b) THEN DigitValue(Head(a)) < DigitValue(Head(b))
    ELSE DigitsLeq(Tail(a), Tail(b))

\* the checked multiply-and-add of the parser does not overflow a u32
FitsU32(t) ==
    LET z == StripZeros(t)
    IN Len(z) < Len(U32MaxDigits) \/ (Len(z) = Len(U32MaxDigits) /\ DigitsLeq(z, U32MaxDigits))

RECURSIVE DigitsToNat(_, _)
DigitsToNat(t, acc) ==
    IF t = <<>> THEN acc ELSE DigitsToNat(Tail(t), acc * 10 + DigitValue(Head(t)))

\* str::parse::<u32>: an optional '+', then one or more decimal digits, no overflow
ParseU32(t) ==
    LET digits == IF t # <<>> /\ Head(t) = "+" THEN Tail(t) ELSE t
    IN IF digits = <<>> THEN None
       ELSE IF \E i \in DOMAIN digits : ~IsDigit(digits[i]) THEN None
       ELSE IF ~FitsU32(digits) THEN None
       ELSE Some(DigitsToNat(digits, 0))

\* str::trim
RECURSIVE TrimStart(_)
TrimStart(t) ==
    IF t # <<>> /\ IsWhitespace(Head(t)) THEN TrimStart(Tail(t)) ELSE t

RECURSIVE TrimEnd(_)
TrimEnd(t) ==
    IF t # <<>> /\ IsWhitespace(t[Len(t)]) THEN TrimEnd(SubSeq(t, 1, Len(t) - 1)) ELSE t

Trim(t) == TrimEnd(TrimStart(t))

\* str::split_once(c): the text before and the text after the first c
SplitOnce(t, c) ==
    IF \A i \in DOMAIN t : t[i] # c THEN None
    ELSE LET i == CHOOSE k \in DOMAIN t : t[k] = c /\ \A j \in 1 .. (k - 1) : t[j] # c
         IN Some(<<SubSeq(t, 1, i - 1), SubSeq(t, i + 1, Len(t))>>)

\* str::lines: split at every "\n", a "\r" before it dropped, no last empty line
StripCr(t) == IF t # <<>> /\ t[Len(t)] = "\r" THEN SubSeq(t, 1, Len(t) - 1) ELSE t

RECURSIVE Lines(_)
Lines(t) ==
    IF t = <<>> THEN <<>>
    ELSE LET sp == SplitOnce(t, "\n")
         IN IF sp = None THEN <<t>>
            ELSE <<StripCr(sp[1][1])>> \o Lines(sp[1][2])

\* Result<T, GenericError>
Ok(x) == <<"Ok", x>>
Err(kind, what) == <<"Err", kind, what>>
IsOk(r) == r[1] = "Ok"

RECURSIVE Concat(_)
Concat(ss) == IF ss = <<>> THEN <<>> ELSE Head(ss) \o Concat(Tail(ss))

-----------------------------------------------------------------------------
(* serialize_to: the text it builds when the two maps yield their entries   *)
(* in the orders v_order, from_order and to_order[from]                     *)

serialize(g, v_order, from_order, to_order) ==
    LET VertexLine(v_id) ==
            U32ToString(v_id) \o <<" ">> \o StringToString(g.vertices[v_id]) \o <<"\n">>
        EdgeLine(v_from, v_to) ==
            U32ToString(v_from) \o <<" ">> \o U32ToString(v_to) \o <<" ">>
                \o StringToString(g.adj_list[v_from][v_to]) \o <<"\n">>
        Row(v_from) ==
            Concat([i \in DOMAIN to_order[v_from] |-> EdgeLine(v_from, to_order[v_from][i])])
    IN Concat([i \in DOMAIN v_order |-> VertexLine(v_order[i])])
         \o <<"#", "\n">>
         \o Concat([i \in DOMAIN from_order |-> Row(from_order[i])])

\* every text serialize_to may write for g
Serializations(g) ==
    {serialize(g, vo, fo, to) :
        vo \in Orders(Keys(g.vertices)),
        fo \in Orders(Keys(g.adj_list)),
        to \in {f \in [Keys(g.adj_list) -> UNION {Orders(Keys(g.adj_list[k])) : k \in Keys(g.adj_list)}] :
                   \A k \in Keys(g.adj_list) : f[k] \in Orders(Keys(g.adj_list[k]))}}

-----------------------------------------------------------------------------
(* deserialize_from, on the text read from the file *)

\* the vertex loop with `continue` in the place of the first `?`: a line with no
\* space is skipped
RECURSIVE read_vertices_lenient(_, _)
read_vertices_lenient(g, lines) ==
    IF lines = <<>> THEN Ok(g)
    ELSE LET sp == SplitOnce(Head(lines), " ") IN
         IF sp = None THEN read_vertices_lenient(g, Tail(lines))
         ELSE LET id == ParseU32(Trim(sp[1][1]))
                  val == ParseString(Trim(sp[1][2]))
              IN IF id = None THEN Err("parse", "ParseIntError")
                 ELSE IF val = None THEN Err("parse", "V::Err")
                 ELSE read_vertices_lenient(insert_node(g, id[1], val[1]).g, Tail(lines))

\* for line in vertices.lines() { ... g.insert_node(id, val) }
RECURSIVE read_vertices(_, _)
read_vertices(g, lines) ==
    IF lines = <<>> THEN Ok(g)
    ELSE LET sp == SplitOnce(Head(lines), " ") IN
         IF sp = None THEN Err("format", "value for each vertex is required")
         ELSE LET id == ParseU32(Trim(sp[1][1]))
                  val == ParseString(Trim(sp[1][2]))
              IN IF id = None THEN Err("parse", "ParseIntError")
                 ELSE IF val = None THEN Err("parse", "V::Err")
                 ELSE read_vertices(insert_node(g, id[1], val[1]).g, Tail(lines))

\* the edge loop with `.ok_or("unknown vertex")?` on an edge the graph refuses
RECURSIVE read_edges_strict(_, _)
read_edges_strict(g, lines) ==
    IF lines = <<>> THEN Ok(g)
    ELSE LET sp == SplitOnce(Head(lines), " ") IN
         IF sp = None THEN Err("format", "vertex_to is missing")
         ELSE LET sp2 == SplitOnce(sp[1][2], " ") IN
              IF sp2 = None THEN Err("format", "edge value is missing")
              ELSE LET from == ParseU32(Trim(sp[1][1]))
                       to == ParseU32(Trim(sp2[1][1]))
                       value == ParseString(Trim(sp2[1][2]))
                   IN IF from = None \/ to = None THEN Err("parse", "ParseIntError")
                      ELSE IF value = None THEN Err("parse", "E::Err")
                      ELSE IF from[1] \notin Keys(g.adj_list) THEN Err("format", "unknown vertex")
                      ELSE read_edges_strict(insert_edge(g, <<from[1], to[1]>>, value[1]).g, Tail(lines))

\* for line in edges.lines() { ... g.insert_edge(OrientedEdge(from, to), value) }
RECURSIVE read_edges(_, _)
read_edges(g, lines) ==
    IF lines = <<>> THEN Ok(g)
    ELSE LET sp == SplitOnce(Head(lines), " ") IN
         IF sp = None THEN Err("format", "vertex_to is missing")
         ELSE LET sp2 == SplitOnce(sp[1][2], " ") IN
              IF sp2 = None THEN Err("format", "edge value is missing")
              ELSE LET from == ParseU32(Trim(sp[1][1]))
                       to == ParseU32(Trim(sp2[1][1]))
                       value == ParseString(Trim(sp2[1][2]))
                   IN IF from = None \/ to = None THEN Err("parse", "ParseIntError")
                      ELSE IF value = None THEN Err("parse", "E::Err")
                      ELSE read_edges(insert_edge(g, <<from[1], to[1]>>, value[1]).g, Tail(lines))

deserialize(input) ==
    LET sp == SplitOnce(input, "#") IN
    IF sp = None THEN Err("format", "# is missing")
    ELSE LET vs == read_vertices(new, Lines(Trim(sp[1][1]))) IN
         IF ~IsOk(vs) THEN vs
         ELSE read_edges(vs[2], Lines(Trim(sp[1][2])))

-----------------------------------------------------------------------------
(* The caller: any sequence of public calls on one owned graph *)

NoCall == [op |-> "new", vertex_id |-> 0, edge |-> <<0, 0>>, value |-> 0]

Init ==
    /\ adj_list = new.adj_list
    /\ vertices = new.vertices
    /\ call = NoCall
    /\ ret = None
    /\ pre = new
    /\ nops = 0
    /\ pc = "idle"
    /\ traverse = <<>>
    /\ queue = <<>>
    /\ used = {}
    /\ todo = {}
    /\ starts = <<>>
    /\ hist = <<>>
    /\ file = None

\* a mutation call `c` with outcome `r` made on the graph by its owner
Mutate(c, r) ==
    /\ pc \in {"idle", "done"}
    /\ nops < MaxOps
    /\ nops' = nops + 1
    /\ pre' = self
    /\ call' = c
    /\ adj_list' = r.g.adj_list
    /\ vertices' = r.g.vertices
    /\ ret' = r.ret
    /\ pc' = "idle"
    /\ traverse' = <<>>
    /\ queue' = <<>>
    /\ used' = {}
    /\ todo' = {}
    /\ starts' = <<>>
    /\ UNCHANGED file

CallInsertNode(VS) ==
    \E id \in Ids, v \in VS :
        Mutate([op |-> "insert_node", vertex_id |-> id, edge |-> <<0, 0>>, value |-> v],
               insert_node(self, id, v))

CallRemoveNode ==
    \E id \in Ids :
        Mutate([op |-> "remove_node", vertex_id |-> id, edge |-> <<0, 0>>, value |-> 0],
               remove_node(self, id))

CallInsertEdge(VS) ==
    \E from \in Ids, to \in Ids, v \in VS :
        Mutate([op |-> "insert_edge", vertex_id |-> 0, edge |-> <<from, to>>, value |-> v],
               insert_edge(self, <<from, to>>, v))

CallRemoveEdge ==
    \E from \in Ids, to \in Ids :
        Mutate([op |-> "remove_edge", vertex_id |-> 0, edge |-> <<from, to>>, value |-> 0],
               remove_edge(self, <<from, to>>))

InsertNode == CallInsertNode(Vals) /\ UNCHANGED hist
RemoveNode == CallRemoveNode /\ UNCHANGED hist
InsertEdge == CallInsertEdge(Vals) /\ UNCHANGED hist
RemoveEdge == CallRemoveEdge /\ UNCHANGED hist

-----------------------------------------------------------------------------
(* traverse_bfs, one step per iteration of its loops.  The graph is borrowed *)
(* for the whole call, so no mutation runs until it has returned.            *)

\* variant: the new adjacents are pushed to the front of the queue
bfs_push_adjacents_front(q, u, order) ==
    SelectSeq(order, LAMBDA a : a \notin u) \o q

\* variant: the adjacents are pushed without looking at `used`
bfs_push_adjacents_unchecked(q, u, order) ==
    q \o order

\* the `for adjacent in ...keys()` loop: the adjacents come in the order `order`
\* and each one not yet in `used` is pushed to the back of the queue
bfs_push_adjacents(q, u, order) ==
    q \o SelectSeq(order, LAMBDA a : a \notin u)

\* let mut traverse = Vec::new(); let mut queue = VecDeque::new(); let mut used = HashSet::new()
BfsCall ==
    /\ pc \in {"idle", "done"}
    /\ pc' = "bfs"
    /\ call' = [op |-> "traverse_bfs", vertex_id |-> 0, edge |-> <<0, 0>>, value |-> 0]
    /\ pre' = self
    /\ ret' = None
    /\ traverse' = <<>>
    /\ queue' = <<>>
    /\ used' = {}
    /\ todo' = Keys(vertices)
    /\ starts' = <<>>
    /\ UNCHANGED <<adj_list, vertices, nops, hist, file>>

\* for start_vertex in self.vertices.keys() { if !used.contains(start_vertex) { push; insert } }
BfsNextStart ==
    /\ pc = "bfs"
    /\ queue = <<>>
    /\ \E start_vertex \in todo :
        /\ todo' = todo \ {start_vertex}
        /\ IF start_vertex \notin used
           THEN /\ queue' = Append(queue, start_vertex)
                /\ used' = used \cup {start_vertex}
                /\ starts' = Append(starts, start_vertex)
           ELSE UNCHANGED <<queue, used, starts>>
    /\ UNCHANGED <<adj_list, vertices, call, ret, pre, nops, pc, traverse, hist, file>>

\* one iteration of `while !queue.is_empty()`; the unwrap of a missing row panics
BfsVisit ==
    /\ pc = "bfs"
    /\ queue # <<>>
    /\ LET current_vertex == Head(queue) IN
        /\ traverse' = Append(traverse, current_vertex)
        /\ IF MapGet(adj_list, current_vertex) = None
           THEN /\ pc' = "panic"
                /\ queue' = Tail(queue)
                /\ UNCHANGED used
           ELSE /\ pc' = pc
                /\ \E order \in Orders(Keys(adj_list[current_vertex])) :
                    queue' = bfs_push_adjacents(Tail(queue), used, order)
                /\ used' = used \cup Keys(adj_list[current_vertex])
    /\ UNCHANGED <<adj_list, vertices, call, ret, pre, nops, todo, starts, hist, file>>

\* the outer loop is exhausted: return traverse
BfsReturn ==
    /\ pc = "bfs"
    /\ queue = <<>>
    /\ todo = {}
    /\ pc' = "done"
    /\ ret' = traverse
    /\ UNCHANGED <<adj_list, vertices, call, pre, nops, traverse, queue, used, todo, starts, hist, file>>

Next ==
    \/ InsertNode
    \/ RemoveNode
    \/ InsertEdge
    \/ RemoveEdge
    \/ BfsCall
    \/ BfsNextStart
    \/ BfsVisit
    \/ BfsReturn

Spec == Init /\ [][Next]_vars

-----------------------------------------------------------------------------
(* Files.  fs::write and fs::read_to_string may fail for reasons of their   *)
(* own (io_ok); a file that was never written cannot be read.               *)

SerializeTo ==
    /\ pc \in {"idle", "done"}
    /\ \E tgf \in Serializations(self), io_ok \in BOOLEAN :
        /\ file' = IF io_ok THEN Some(tgf) ELSE file
        /\ ret' = IF io_ok THEN Ok(<<>>) ELSE Err("io", "fs::write")
    /\ call' = [op |-> "serialize_to", vertex_id |-> 0, edge |-> <<0, 0>>, value |-> 0]
    /\ pre' = self
    /\ pc' = "idle"
    /\ traverse' = <<>>
    /\ queue' = <<>>
    /\ used' = {}
    /\ todo' = {}
    /\ starts' = <<>>
    /\ UNCHANGED <<adj_list, vertices, nops, hist>>

DeserializeFrom ==
    /\ pc \in {"idle", "done"}
    /\ \E io_ok \in BOOLEAN :
        ret' = IF file = None \/ ~io_ok
               THEN Err("io", "fs::read_to_string")
               ELSE deserialize(file[1])
    /\ call' = [op |-> "deserialize_from", vertex_id |-> 0, edge |-> <<0, 0>>, value |-> 0]
    /\ pre' = self
    /\ pc' = "idle"
    /\ traverse' = <<>>
    /\ queue' = <<>>
    /\ used' = {}
    /\ todo' = {}
    /\ starts' = <<>>
    /\ UNCHANGED <<adj_list, vertices, nops, hist, file>>

(* A caller that builds a Graph<String, String>, writes it and reads it back *)
InsertNodeS == nops < MaxIOOps /\ CallInsertNode(StrVals) /\ UNCHANGED hist
RemoveNodeS == nops < MaxIOOps /\ CallRemoveNode /\ UNCHANGED hist
InsertEdgeS == nops < MaxIOOps /\ CallInsertEdge(StrVals) /\ UNCHANGED hist
RemoveEdgeS == nops < MaxIOOps /\ CallRemoveEdge /\ UNCHANGED hist

NextIO ==
    \/ InsertNodeS
    \/ RemoveNodeS
    \/ InsertEdgeS
    \/ RemoveEdgeS
    \/ SerializeTo
    \/ DeserializeFrom

SpecIO == Init /\ [][NextIO]_vars

(* A caller that reads a file holding any text of the alphabet *)
InitParse ==
    /\ adj_list = new.adj_list
    /\ vertices = new.vertices
    /\ call = NoCall
    /\ ret = None
    /\ pre = new
    /\ nops = 0
    /\ pc = "idle"
    /\ traverse = <<>>
    /\ queue = <<>>
    /\ used = {}
    /\ todo = {}
    /\ starts = <<>>
    /\ hist = <<>>
    /\ file \in {Some(t) : t \in Texts}

NextParse == DeserializeFrom

SpecParse == InitParse /\ [][NextParse]_vars

(* A caller that reads a file made of whole lines, each ended by a line break *)
LineTexts ==
    LET Text(ls) == Concat([i \in DOMAIN ls |-> ls[i] \o <<"\n">>])
        Sizes == {nm \in (0 .. MaxLines) \X (0 .. MaxLines) : nm[1] + nm[2] <= MaxLines}
    IN UNION {{Text(vs) \o <<"#", "\n">> \o Text(es) :
                  vs \in [1 .. nm[1] -> VertexLineChoices],
                  es \in [1 .. nm[2] -> EdgeLineChoices]} : nm \in Sizes}

InitLines ==
    /\ adj_list = new.adj_list
    /\ vertices = new.vertices
    /\ call = NoCall
    /\ ret = None
    /\ pre = new
    /\ nops = 0
    /\ pc = "idle"
    /\ traverse = <<>>
    /\ queue = <<>>
    /\ used = {}
    /\ todo = {}
    /\ starts = <<>>
    /\ hist = <<>>
    /\ file \in {Some(t) : t \in LineTexts}

NextLines == DeserializeFrom

SpecLines == InitLines /\ [][NextLines]_vars

-----------------------------------------------------------------------------
(* A caller that only inserts vertices, with the calls and their results logged *)

InsertNodeLogged ==
    /\ CallInsertNode(Vals)
    /\ hist' = Append(hist, [call |-> call', ret |-> ret'])

NextInsert == InsertNodeLogged

SpecInsert == Init /\ [][NextInsert]_vars

-----------------------------------------------------------------------------
(* A caller that makes any mutation calls on two ids, with the calls and    *)
(* their results logged.  The log decides the state, so the values are one. *)

MaxHist == 4
HistIds == {0, 1}

Logged(Call) ==
    /\ Len(hist) < MaxHist
    /\ Call
    /\ call'.vertex_id \in HistIds
    /\ call'.edge \in HistIds \X HistIds
    /\ hist' = Append(hist, [call |-> call', ret |-> ret'])

InsertNodeH == Logged(CallInsertNode({1}))
RemoveNodeH == Logged(CallRemoveNode)
InsertEdgeH == Logged(CallInsertEdge({1}))
RemoveEdgeH == Logged(CallRemoveEdge)

NextHist ==
    \/ InsertNodeH
    \/ RemoveNodeH
    \/ InsertEdgeH
    \/ RemoveEdgeH

SpecHist == Init /\ [][NextHist]_vars

-----------------------------------------------------------------------------
(* A caller that builds a graph of a few vertices and edges, among them     *)
(* cycles, self-loops and edges to an unknown vertex, and then traverses it *)

MaxEdges == 3
BfsVertices == {0, 1, 2, 3}
BfsUnknown == 4

RECURSIVE InsertNodes(_, _)
InsertNodes(g, ids) ==
    IF ids = {} THEN g
    ELSE LET id == CHOOSE i \in ids : TRUE
         IN InsertNodes(insert_node(g, id, 1).g, ids \ {id})

RECURSIVE InsertEdges(_, _)
InsertEdges(g, es) ==
    IF es = <<>> THEN g
    ELSE InsertEdges(insert_edge(g, Head(es), 1).g, Tail(es))

BfsGraphs ==
    LET EdgeLists == UNION {[1 .. n -> BfsVertices \X (BfsVertices \cup {BfsUnknown})] :
                               n \in 0 .. MaxEdges}
    IN {InsertEdges(InsertNodes(new, BfsVertices), es) : es \in EdgeLists}

InitBfs ==
    /\ \E g \in BfsGraphs :
        /\ adj_list = g.adj_list
        /\ vertices = g.vertices
    /\ call = NoCall
    /\ ret = None
    /\ pre = new
    /\ nops = 0
    /\ pc = "idle"
    /\ traverse = <<>>
    /\ queue = <<>>
    /\ used = {}
    /\ todo = {}
    /\ starts = <<>>
    /\ hist = <<>>
    /\ file = None

NextBfs ==
    \/ BfsCall
    \/ BfsNextStart
    \/ BfsVisit
    \/ BfsReturn

\* every loop iteration of a call that has started is eventually executed
SpecBfs ==
    /\ InitBfs
    /\ [][NextBfs]_vars
    /\ WF_vars(BfsNextStart) /\ WF_vars(BfsVisit) /\ WF_vars(BfsReturn)

-----------------------------------------------------------------------------
(* Views of a graph used to state the properties *)

\* the (from, to) pairs stored in the adjacency store
Edges(g) == UNION {{<<from, to>> : to \in Keys(g.adj_list[from])} : from \in Keys(g.adj_list)}
EdgeValue(g, e) == g.adj_list[e[1]][e[2]]
\* how many times x occurs in the vector s
Count(s, x) == Cardinality({i \in DOMAIN s : s[i] = x})
\* an edge whose destination is not a known vertex
Dangling(g) == {e \in Edges(g) : e[2] \notin Keys(g.vertices)}

-----------------------------------------------------------------------------
(* C1: in every reachable state the ids of the vertex store are exactly the *)
(* ids that have a row in the adjacency store.                              *)
C1_Lockstep == Keys(vertices) = Keys(adj_list)

\* a known vertex was removed while another vertex keeps an empty row
C1_Witness ==
    /\ call.op = "remove_node"
    /\ ret # None
    /\ \E v \in Keys(vertices) : adj_list[v] = EmptyMap

(* C2: traverse_bfs returns a vector as long as the vertex store in which   *)
(* every known vertex id occurs exactly once and no other id occurs, also   *)
(* on graphs with an edge to an unknown vertex.                             *)
C2_BfsVisitsEachVertexOnce ==
    (call.op = "traverse_bfs" /\ pc \in {"done", "panic"}) =>
        /\ pc = "done"
        /\ Len(ret) = Cardinality(Keys(vertices))
        /\ \A v \in Keys(vertices) : Count(ret, v) = 1
        /\ \A i \in DOMAIN ret : ret[i] \in Keys(vertices)

(* C3: no container operation aborts; in particular every id traverse_bfs   *)
(* dequeues has an adjacency row, so the lookup of that row never fails.    *)
C3_NoOperationAborts ==
    /\ pc # "panic"
    /\ (pc = "bfs" /\ queue # <<>>) => Head(queue) \in Keys(adj_list)

(* C4: remove_node(id) returns the value stored for id (nothing if unknown) *)
(* and leaves the vertex store minus id and the edge set minus exactly the  *)
(* edges from or to id; get_adjacents(id) is then nothing and no other      *)
(* vertex's adjacents contain id; everything else is unchanged.             *)
C4_RemoveNode ==
    call.op = "remove_node" =>
        LET id == call.vertex_id IN
        /\ ret = (IF id \in Keys(pre.vertices) THEN Some(pre.vertices[id]) ELSE None)
        /\ Keys(vertices) = Keys(pre.vertices) \ {id}
        /\ \A v \in Keys(vertices) : vertices[v] = pre.vertices[v]
        /\ Keys(adj_list) = Keys(pre.adj_list) \ {id}
        /\ Edges(self) = {e \in Edges(pre) : e[1] # id /\ e[2] # id}
        /\ \A e \in Edges(self) : EdgeValue(self, e) = EdgeValue(pre, e)
        /\ get_adjacents(self, id) = {None}
        /\ \A v \in Keys(vertices) : \A r \in get_adjacents(self, v) :
              r # None /\ Count(r[1], id) = 0

\* the removed vertex had an edge from another vertex, which keeps another edge
C4_Witness ==
    /\ call.op = "remove_node"
    /\ ret # None
    /\ \E e \in Edges(pre) : e[2] = call.vertex_id /\ e[1] # call.vertex_id
    /\ Edges(self) # {}

(* C5: after any sequence of insert_node calls on an empty graph the vertex *)
(* store holds exactly the distinct ids inserted, each with the value of    *)
(* its most recent insertion; each call returned nothing for an absent id   *)
(* and the previously stored value for a present one.                       *)
C5_InsertSequence ==
    LET \* the calls before the i-th that inserted the same id
        Earlier(i) == {j \in 1 .. (i - 1) : hist[j].call.vertex_id = hist[i].call.vertex_id}
        \* the last call that inserted id
        Latest(id) == CHOOSE i \in DOMAIN hist :
                          /\ hist[i].call.vertex_id = id
                          /\ \A j \in DOMAIN hist : hist[j].call.vertex_id = id => j <= i
        Max(S) == CHOOSE m \in S : \A x \in S : x <= m
    IN
    (\A i \in DOMAIN hist : hist[i].call.op = "insert_node") =>
        /\ Keys(vertices) = {hist[i].call.vertex_id : i \in DOMAIN hist}
        /\ \A id \in Keys(vertices) : vertices[id] = hist[Latest(id)].call.value
        /\ \A i \in DOMAIN hist :
              hist[i].ret = (IF Earlier(i) = {} THEN None
                             ELSE Some(hist[Max(Earlier(i))].call.value))

\* an id is inserted, another id is inserted, and the first is inserted again
\* with another value
C5_Witness ==
    /\ Len(hist) >= 3
    /\ hist[1].call.vertex_id = hist[3].call.vertex_id
    /\ hist[1].call.vertex_id # hist[2].call.vertex_id
    /\ hist[1].call.value # hist[3].call.value
    /\ hist[3].ret = Some(hist[1].call.value)

(* C6: insert_edge((from,to), v) on a known `from` (whether or not `to` is  *)
(* known) leaves get_adjacents(from) containing `to` exactly once, returns  *)
(* nothing if the edge was new and the replaced value otherwise, and the    *)
(* edge then holds v.                                                       *)
C6_InsertEdge ==
    (call.op = "insert_edge" /\ call.edge[1] \in Keys(pre.vertices)) =>
        LET from == call.edge[1]
            to == call.edge[2]
        IN
        /\ \A r \in get_adjacents(self, from) : r # None /\ Count(r[1], to) = 1
        /\ ret = (IF call.edge \in Edges(pre) THEN Some(EdgeValue(pre, call.edge)) ELSE None)
        /\ call.edge \in Edges(self)
        /\ EdgeValue(self, call.edge) = call.value

\* the same (from, to) is inserted a second time with another value, and `to`
\* is not a known vertex
C6_Witness ==
    /\ call.op = "insert_edge"
    /\ call.edge[1] \in Keys(pre.vertices)
    /\ call.edge \in Dangling(self)
    /\ ret # None
    /\ ret # Some(call.value)
    /\ EdgeValue(self, call.edge) = call.value

(* C7: insert_edge on an edge whose `from` is not a known vertex returns    *)
(* nothing and changes nothing: no row is created, no edge is added and the *)
(* vertex store is unchanged.                                               *)
C7_InsertEdgeUnknownFrom ==
    (call.op = "insert_edge" /\ call.edge[1] \notin Keys(pre.vertices)) =>
        /\ ret = None
        /\ call.edge[1] \notin Keys(adj_list)
        /\ Edges(self) = Edges(pre)
        /\ adj_list = pre.adj_list
        /\ vertices = pre.vertices

\* `from` is unknown while `to` is a known vertex
C7_Witness ==
    /\ call.op = "insert_edge"
    /\ call.edge[1] \notin Keys(pre.vertices)
    /\ call.edge[2] \in Keys(pre.vertices)
    /\ Edges(pre) # {}

(* C8: remove_edge((from,to)) returns nothing and leaves both stores        *)
(* unchanged when `from` is not a known vertex and when `from` is known but *)
(* has no edge to `to`; neither case aborts.                                *)
C8_RemoveEdgeAbsent ==
    (call.op = "remove_edge" /\ call.edge \notin Edges(pre)) =>
        /\ ret = None
        /\ adj_list = pre.adj_list
        /\ vertices = pre.vertices
        /\ pc = "idle"

\* `from` is known and has an edge, but none to `to`
C8_Witness ==
    /\ call.op = "remove_edge"
    /\ call.edge[1] \in Keys(pre.vertices)
    /\ pre.adj_list[call.edge[1]] # EmptyMap
    /\ call.edge \notin Edges(pre)

(* C9: round trip.  For every reachable graph with string payloads (the     *)
(* empty string, strings with leading or trailing spaces, with '#' or a     *)
(* line break among them) serialize_to followed by deserialize_from         *)
(* succeeds and yields the same vertex mapping and the same edge mapping.   *)
C9_RoundTrip ==
    (/\ call.op = "deserialize_from"
     /\ file # None
     /\ file[1] \in Serializations(self)
     /\ ~(ret[1] = "Err" /\ ret[2] = "io")) =>
        /\ IsOk(ret)
        /\ ret[2].vertices = vertices
        /\ Edges(ret[2]) = Edges(self)
        /\ \A e \in Edges(self) : EdgeValue(ret[2], e) = EdgeValue(self, e)

(* What the lines of a file are, and what is wrong with one, as the format *)
(* of the file defines it                                                   *)
Has(l, c) == \E i \in DOMAIN l : l[i] = c
Before(l, c) == SplitOnce(l, c)[1][1]
After(l, c) == SplitOnce(l, c)[1][2]
IsId(tok) == ParseU32(Trim(tok)) # None
VertexError(l) ==
    IF ~Has(l, " ") THEN <<"format", "value for each vertex is required">>
    ELSE IF ~IsId(Before(l, " ")) THEN <<"parse", "ParseIntError">>
    ELSE <<>>
EdgeError(l) ==
    IF ~Has(l, " ") THEN <<"format", "vertex_to is missing">>
    ELSE IF ~Has(After(l, " "), " ") THEN <<"format", "edge value is missing">>
    ELSE IF ~IsId(Before(l, " ")) \/ ~IsId(Before(After(l, " "), " "))
         THEN <<"parse", "ParseIntError">>
    ELSE <<>>
\* the lines of the vertex section and of the edge section of a file with a '#'
VertexLines(input) == Lines(Trim(Before(input, "#")))
EdgeLines(input) == Lines(Trim(After(input, "#")))
SectionLines(input, k) ==
    LET ls == IF k = 1 THEN VertexLines(input) ELSE EdgeLines(input)
    IN {ls[i] : i \in DOMAIN ls}
\* the error of every line, in file order
LineErrors(input) ==
    LET vs == VertexLines(input)
        es == EdgeLines(input)
    IN [i \in DOMAIN vs |-> VertexError(vs[i])] \o [i \in DOMAIN es |-> EdgeError(es[i])]

(* C10: deserialize_from has no partial success.  With no '#' in the input  *)
(* it returns a format error.  Otherwise a vertex line with no space, or an *)
(* edge line lacking its first or its second space, is a format error, and  *)
(* a line that has its spaces but an id token that is no u32 is a parse     *)
(* error; the result is the error of the first such line in file order,     *)
(* every vertex line coming before any edge line, and no graph is returned. *)
C10_FirstErrorWins ==
    LET input == file[1]
        errors == LineErrors(input)
        Offending == {i \in DOMAIN errors : errors[i] # <<>>}
        first == CHOOSE i \in Offending : \A j \in Offending : i <= j
    IN
    (/\ call.op = "deserialize_from"
     /\ file # None
     /\ ~(ret[1] = "Err" /\ ret[2] = "io")) =>
        /\ ~Has(input, "#") => ret = Err("format", "# is missing")
        /\ (Has(input, "#") /\ Offending # {}) =>
              ret = Err(errors[first][1], errors[first][2])

\* a vertex line has its space but an id that is no number, an edge line has no
\* space at all, and the call returned the parse error of the vertex line
C10_Witness ==
    /\ call.op = "deserialize_from"
    /\ file # None
    /\ Has(file[1], "#")
    /\ \E l \in SectionLines(file[1], 1) : VertexError(l) = <<"parse", "ParseIntError">>
    /\ \E l \in SectionLines(file[1], 2) : EdgeError(l) = <<"format", "vertex_to is missing">>
    /\ ret = Err("parse", "ParseIntError")

(* What a well-formed line declares *)
VertexId(l) == ParseU32(Trim(Before(l, " ")))[1]
VertexValue(l) == Trim(After(l, " "))
EdgeFrom(l) == ParseU32(Trim(Before(l, " ")))[1]
EdgeTo(l) == ParseU32(Trim(Before(After(l, " "), " ")))[1]
EdgeText(l) == Trim(After(After(l, " "), " "))
\* the input has its '#' and every line of its two sections has its spaces and ids
WellFormed(input) ==
    /\ Has(input, "#")
    /\ LET errors == LineErrors(input) IN \A i \in DOMAIN errors : errors[i] = <<>>
\* the last index of ls whose line satisfies P
LastLine(ls, P(_)) == CHOOSE i \in DOMAIN ls : P(ls[i]) /\ \A j \in DOMAIN ls : P(ls[j]) => j <= i

(* C11: on a well-formed input deserialize_from succeeds; the vertex store  *)
(* maps each id declared in the vertex section to the value of its last     *)
(* declaration; the edges are exactly the (from, to) of the edge lines      *)
(* whose from is declared, each with the value of its last such line: an    *)
(* edge line with an undeclared from is dropped without an error, one with  *)
(* an undeclared to is kept.                                                *)
C11_WellFormedInput ==
    (/\ call.op = "deserialize_from"
     /\ file # None
     /\ ~(ret[1] = "Err" /\ ret[2] = "io")
     /\ WellFormed(file[1])) =>
        LET vs == VertexLines(file[1])
            es == EdgeLines(file[1])
            declared == {VertexId(vs[i]) : i \in DOMAIN vs}
            kept == {i \in DOMAIN es : EdgeFrom(es[i]) \in declared}
        IN
        /\ IsOk(ret)
        /\ Keys(ret[2].vertices) = declared
        /\ \A id \in declared :
              ret[2].vertices[id] = VertexValue(vs[LastLine(vs, LAMBDA l : VertexId(l) = id)])
        /\ Edges(ret[2]) = {<<EdgeFrom(es[i]), EdgeTo(es[i])>> : i \in kept}
        /\ \A e \in Edges(ret[2]) :
              EdgeValue(ret[2], e) =
                  EdgeText(es[LastLine(es, LAMBDA l : <<EdgeFrom(l), EdgeTo(l)>> = e)])

\* an id is declared twice with two values, an edge line has an undeclared from
\* and another an undeclared to
C11_Witness ==
    /\ call.op = "deserialize_from"
    /\ file # None
    /\ WellFormed(file[1])
    /\ IsOk(ret)
    /\ LET vs == VertexLines(file[1])
           es == EdgeLines(file[1])
           declared == {VertexId(vs[i]) : i \in DOMAIN vs}
       IN /\ \E i, j \in DOMAIN vs : /\ i < j
                                     /\ VertexId(vs[i]) = VertexId(vs[j])
                                     /\ VertexValue(vs[i]) # VertexValue(vs[j])
          /\ \E i \in DOMAIN es : EdgeFrom(es[i]) \notin declared
          /\ \E i \in DOMAIN es : EdgeFrom(es[i]) \in declared /\ EdgeTo(es[i]) \notin declared

(* C12: deserialize_from processes only the non-empty lines of a section.   *)
(* Blank lines around a section are ignored and an empty line between two   *)
(* lines is skipped: the input gives what the input without that empty line *)
(* gives.                                                                   *)
C12_EmptyLinesSkipped ==
    (/\ call.op = "deserialize_from"
     /\ file # None
     /\ ~(ret[1] = "Err" /\ ret[2] = "io")) =>
        LET input == file[1]
            \* the line that starts after the line break at i is empty
            EmptyLineAfter(i) == i < Len(input) /\ input[i] = "\n" /\ input[i + 1] = "\n"
            Without(i) == SubSeq(input, 1, i) \o SubSeq(input, i + 2, Len(input))
        IN \A i \in DOMAIN input : EmptyLineAfter(i) => ret = deserialize(Without(i))

-----------------------------------------------------------------------------
(* Reachability along the stored edges *)

\* the adjacents of v: the keys of its row, none when it has no row
Succ(v) == IF v \in Keys(adj_list) THEN Keys(adj_list[v]) ELSE {}

\* the ids at most n edges away from s
RECURSIVE Within(_, _)
Within(s, n) ==
    IF n = 0 THEN {s}
    ELSE LET W == Within(s, n - 1)
         IN W \cup UNION {Succ(v) : v \in W}

Reach(s) == Within(s, Cardinality(Keys(adj_list)))

\* the number of edges of a shortest path from s to v, for v in Reach(s)
Dist(s, v) ==
    CHOOSE n \in 0 .. Cardinality(Keys(adj_list)) :
        /\ v \in Within(s, n)
        /\ n > 0 => v \notin Within(s, n - 1)

\* where the part of the vector contributed by the k-th start vertex begins
SegmentStart(vec, k) ==
    IF k > Len(starts) THEN Len(vec) + 1
    ELSE CHOOSE i \in DOMAIN vec : vec[i] = starts[k]

(* C13: in the vector traverse_bfs returns, the vertices contributed by one *)
(* start vertex s are exactly the vertices reachable from s that were not   *)
(* visited before, in order of non-decreasing shortest distance from s.     *)
C13_BfsOrder ==
    (call.op = "traverse_bfs" /\ pc = "done") =>
        \A k \in DOMAIN starts :
            LET s == starts[k]
                lo == SegmentStart(ret, k)
                hi == SegmentStart(ret, k + 1) - 1
                before == {ret[i] : i \in 1 .. lo - 1}
            IN /\ Count(ret, s) = 1
               /\ lo <= hi
               /\ k = 1 => lo = 1
               /\ {ret[i] : i \in lo .. hi} = Reach(s) \ before
               /\ \A i, j \in lo .. hi : i < j => Dist(s, ret[i]) <= Dist(s, ret[j])

\* a start vertex contributed vertices one and two edges away, and a later
\* start vertex reaches a vertex that was visited before
C13_Witness ==
    /\ call.op = "traverse_bfs"
    /\ pc = "done"
    /\ \E k \in DOMAIN starts :
        \E i \in SegmentStart(ret, k) .. SegmentStart(ret, k + 1) - 1 :
            Dist(starts[k], ret[i]) = 2
    /\ \E k \in DOMAIN starts :
        Reach(starts[k]) \cap {ret[i] : i \in 1 .. SegmentStart(ret, k) - 1} # {}

\* the ids pushed to the queue so far in this call, in the order of the pushes
Pushed == traverse \o queue

(* C14: traverse_bfs terminates on every reachable graph, also one with     *)
(* cycles and self-loops: an id is marked visited at the moment it is       *)
(* enqueued, so each id is pushed to the queue at most once.                *)
C14_BfsTerminates ==
    /\ [](call.op = "traverse_bfs" =>
            /\ \A i, j \in DOMAIN Pushed : Pushed[i] = Pushed[j] => i = j
            /\ {Pushed[i] : i \in DOMAIN Pushed} = used)
    /\ (pc = "bfs") ~> (pc \in {"done", "panic"})

\* the call returned on a graph with a self-loop and a cycle through two vertices
C14_Witness ==
    /\ call.op = "traverse_bfs"
    /\ pc = "done"
    /\ \E v \in Keys(adj_list) : v \in Succ(v)
    /\ \E v, w \in Keys(adj_list) : v # w /\ w \in Succ(v) /\ v \in Succ(w)

(* C15: insert_node(id, v) on a known id changes only the value stored for  *)
(* id: its outgoing edges, its incoming edges and every other vertex, value *)
(* and edge are unchanged.  On an unknown id it adds id with an empty row   *)
(* and changes nothing else.                                                *)
C15_InsertNodeFrame ==
    call.op = "insert_node" =>
        LET id == call.vertex_id IN
        /\ Keys(vertices) = Keys(pre.vertices) \cup {id}
        /\ vertices[id] = call.value
        /\ \A v \in Keys(pre.vertices) \ {id} : vertices[v] = pre.vertices[v]
        /\ Keys(adj_list) = Keys(pre.adj_list) \cup {id}
        /\ \A from \in Keys(pre.adj_list) : adj_list[from] = pre.adj_list[from]
        /\ id \notin Keys(pre.vertices) => adj_list[id] = EmptyMap
        /\ Edges(self) = Edges(pre)
        /\ \A e \in Edges(pre) : EdgeValue(self, e) = EdgeValue(pre, e)

\* a known vertex with an outgoing and an incoming edge was given another value
C15_Witness ==
    /\ call.op = "insert_node"
    /\ call.vertex_id \in Keys(pre.vertices)
    /\ pre.vertices[call.vertex_id] # call.value
    /\ \E e \in Edges(pre) : e[1] = call.vertex_id /\ e[2] # call.vertex_id
    /\ \E e \in Edges(pre) : e[2] = call.vertex_id /\ e[1] # call.vertex_id

(* C16: when the edge (from, to) exists, remove_edge((from, to)) returns    *)
(* its value and removes exactly that edge: the adjacents of from are the   *)
(* previous ones minus to, the reverse edge and every other edge are        *)
(* unchanged, from keeps its row and the vertex store is unchanged.         *)
C16_RemoveEdgeFrame ==
    (call.op = "remove_edge" /\ call.edge \in Edges(pre)) =>
        LET from == call.edge[1]
            to == call.edge[2]
        IN /\ ret = Some(EdgeValue(pre, call.edge))
           /\ Edges(self) = Edges(pre) \ {call.edge}
           /\ \A e \in Edges(self) : EdgeValue(self, e) = EdgeValue(pre, e)
           /\ get_adjacents(self, from) =
                  {Some(s) : s \in Orders(Keys(pre.adj_list[from]) \ {to})}
           /\ Keys(adj_list) = Keys(pre.adj_list)
           /\ vertices = pre.vertices

\* the last edge of a row was removed while the reverse edge exists
C16_Witness ==
    /\ call.op = "remove_edge"
    /\ call.edge \in Edges(pre)
    /\ call.edge[1] # call.edge[2]
    /\ <<call.edge[2], call.edge[1]>> \in Edges(pre)
    /\ adj_list[call.edge[1]] = EmptyMap

-----------------------------------------------------------------------------
(* Properties of the log of calls *)

IsRemoveNode(h, id) == h.call.op = "remove_node" /\ h.call.vertex_id = id
IsInsertNode(h, id) == h.call.op = "insert_node" /\ h.call.vertex_id = id
IsInsertEdge(h, e) == h.call.op = "insert_edge" /\ h.call.edge = e
IsRemoveEdge(h, e) == h.call.op = "remove_edge" /\ h.call.edge = e

(* C17: removed edges never reappear: after remove_node(id) immediately     *)
(* followed by insert_node(id, v), id has no adjacents and no other vertex  *)
(* has id among its adjacents, whatever edges id had before the removal.    *)
C17_RemovedEdgesStayRemoved ==
    LET n == Len(hist) IN
    \A id \in Ids :
        (n >= 2 /\ IsRemoveNode(hist[n - 1], id) /\ IsInsertNode(hist[n], id)) =>
            /\ get_adjacents(self, id) = {Some(<<>>)}
            /\ \A v \in Keys(adj_list) \ {id} : id \notin Keys(adj_list[v])
            /\ \A e \in Edges(self) : id \notin {e[1], e[2]}

\* a known vertex that had an edge was removed and inserted again
C17_Witness ==
    LET n == Len(hist) IN
    \E id \in Ids :
        /\ n >= 2
        /\ IsRemoveNode(hist[n - 1], id)
        /\ hist[n - 1].ret # None
        /\ IsInsertNode(hist[n], id)
        /\ \E j, i \in 1 .. n - 2 :
            /\ j < i
            /\ IsInsertNode(hist[j], id)
            /\ hist[i].call.op = "insert_edge" /\ hist[i].call.edge[1] = id
            /\ \A k \in j .. n - 2 : hist[k].call.op \notin {"remove_node", "remove_edge"}

(* C18: over any sequence of mutation calls, every edge (from, to) in the   *)
(* adjacency store was put there by an insert_edge((from, to)) call after   *)
(* which neither remove_node(from), remove_node(to) nor                     *)
(* remove_edge((from, to)) was called; so an edge to an unknown vertex      *)
(* points to an id that was not removed since the edge was inserted.        *)
C18_EdgeHistory ==
    /\ \A e \in Edges(self) :
        \E i \in DOMAIN hist :
            /\ IsInsertEdge(hist[i], e)
            /\ \A j \in i + 1 .. Len(hist) :
                /\ ~IsRemoveNode(hist[j], e[1])
                /\ ~IsRemoveNode(hist[j], e[2])
                /\ ~IsRemoveEdge(hist[j], e)
    /\ \A e \in Dangling(self) :
        \E i \in DOMAIN hist :
            /\ IsInsertEdge(hist[i], e)
            /\ \A j \in i + 1 .. Len(hist) : ~IsRemoveNode(hist[j], e[2])

\* an edge points to a vertex that was removed before the edge was inserted
C18_Witness ==
    \E e \in Dangling(self) :
        \E i, j \in DOMAIN hist :
            /\ i < j
            /\ IsRemoveNode(hist[i], e[2])
            /\ hist[i].ret # None
            /\ IsInsertEdge(hist[j], e)

====
